---- MODULE Spec2Model ----
(***************************************************************************)
(* The Geo Area Calculator App component (App.tsx, constants.ts, types.ts) *)
(* as a state machine: the React state of the component, the geolocation   *)
(* watches the browser holds for it, and one action per handler.           *)
(*                                                                         *)
(* Nullable values (number | null, string | null) are sequences of length  *)
(* at most one: Null is <<>>, Some(v) is <<v>>.                            *)
(* Coordinates are integers counted in grid steps of latitude / longitude. *)
(* Conversion factors and converted areas are exact decimal numbers        *)
(* Dec(m, e), standing for m * 10^-e, kept in normal form.                 *)
(***************************************************************************)
EXTENDS Integers, Sequences, FiniteSets

\* ------------------------------------------------------------------ bounds
MaxPath == 3        \* longest path recorded in one walk
MaxLng == 1         \* longitudes range over 0 .. MaxLng
MaxWatches == 2     \* watchPosition calls in one session
MaxCalcLen == 4     \* longest path handed to the area calculator on its own
MaxCalcLng == 2     \* longitudes of those paths range over 0 .. MaxCalcLng

Null == <<>>
Some(v) == <<v>>

\* the latitudes of the samples: one south of the equator, one on it
Lats == {-1, 0}
Lngs == 0 .. MaxLng
\* interface GeoPoint { lat: number; lng: number }
GeoPoint == [lat : Lats, lng : Lngs]
\* the position.coords.accuracy the provider reports (metres); stored unmodified
Accuracies == {5}
\* GeolocationPositionError.code: TIMEOUT, PERMISSION_DENIED, POSITION_UNAVAILABLE,
\* and 0 for any other value
ErrorCodes == <<3, 1, 2, 0>>

\* ------------------------------------------------------------------ types.ts
\* enum AreaUnit: member name -> value
AreaUnitEnum ==
  [SQ_METERS |-> "m2", SQ_FEET |-> "ft2", ACRES |-> "acres", HECTARES |-> "ha"]

\* Object.keys(AreaUnit)
AreaUnitKeys == DOMAIN AreaUnitEnum

\* the values of the enum
AreaUnitValues == {AreaUnitEnum[k] : k \in AreaUnitKeys}

\* AreaUnit.<member>: a member the enum lacks evaluates to undefined, which a
\* computed property key turns into the string "undefined"
AreaUnit(member) ==
  IF member \in AreaUnitKeys THEN AreaUnitEnum[member] ELSE "undefined"

\* ------------------------------------------------------------------ constants.ts
\* the decimal number m * 10^-e
Dec(m, e) == [m |-> m, e |-> e]

\* the normal form of a decimal: no trailing zero behind the decimal point
RECURSIVE Normalize(_)
Normalize(d) ==
  IF d.e > 0 /\ d.m % 10 = 0 THEN Normalize(Dec(d.m \div 10, d.e - 1)) ELSE d

\* an object literal with computed keys: entries are assigned in order, a later
\* entry with the same key replaces the earlier one
RECURSIVE ObjectLiteral(_)
ObjectLiteral(entries) ==
  IF entries = <<>> THEN <<>>
  ELSE LET n == Len(entries)
           init == ObjectLiteral(SubSeq(entries, 1, n - 1))
           k == entries[n][1]
       IN [x \in (DOMAIN init) \cup {k} |-> IF x = k THEN entries[n][2] ELSE init[x]]

UNIT_CONVERSIONS_ENTRIES ==
  << <<AreaUnit("SQ_METERS"), Dec(1, 0)>>,
     <<AreaUnit("SQ_FEET"), Dec(107639, 4)>>,
     <<AreaUnit("ACRES"), Dec(247105, 9)>>,
     <<AreaUnit("HECTARES"), Dec(1, 4)>>,
     <<AreaUnit("KANAL"), Dec(197684, 8)>>,
     <<AreaUnit("MARLA"), Dec(395369, 7)>> >>

UNIT_CONVERSIONS == ObjectLiteral(UNIT_CONVERSIONS_ENTRIES)

UNIT_LABELS_ENTRIES ==
  << <<AreaUnit("SQ_METERS"), "Square Meters">>,
     <<AreaUnit("SQ_FEET"), "Square Feet">>,
     <<AreaUnit("ACRES"), "Acres">>,
     <<AreaUnit("HECTARES"), "Hectares">>,
     <<AreaUnit("KANAL"), "Kanal">>,
     <<AreaUnit("MARLA"), "Marla">> >>

UNIT_LABELS == ObjectLiteral(UNIT_LABELS_ENTRIES)

\* ------------------------------------------------------------------ services/areaCalculator
\* area in square metres of one grid cell under the local tangent-plane projection
CellSqMeters == 2000

Abs(n) == IF n < 0 THEN -n ELSE n

\* cross product of two consecutive vertices (x = lng, y = lat)
CrossWrongVertex(p, q) == p.lng * q.lat - q.lng * q.lat
Cross(p, q) == p.lng * q.lat - q.lng * p.lat

RECURSIVE ShoelaceSumOpen(_, _)
ShoelaceSumOpen(pts, i) ==
  IF i >= Len(pts) THEN 0
  ELSE Cross(pts[i], pts[i + 1]) + ShoelaceSumOpen(pts, i + 1)

RECURSIVE ShoelaceSum(_, _)
ShoelaceSum(pts, i) ==
  IF i > Len(pts) THEN 0
  ELSE Cross(pts[i], pts[(i % Len(pts)) + 1]) + ShoelaceSum(pts, i + 1)

\* planar shoelace formula over the projected vertices, last joined to first
calculatePolygonAreaSigned(pts) == (ShoelaceSum(pts, 1) * CellSqMeters) \div 2
calculatePolygonArea(pts) == (Abs(ShoelaceSum(pts, 1)) * CellSqMeters) \div 2

\* ------------------------------------------------------------------ messages
MsgUnsupported ==
  "Geolocation is not supported by your browser. This app cannot function without it."
MsgDenied ==
  "Location permission denied. Please enable it in your browser/system settings."
MsgUnavailable ==
  "Location data is unavailable. Please move to an open area with a clear view of the sky."
MsgTimeout ==
  "Could not get location in time. Please check your network or GPS signal."
\* `An unknown location error occurred: ${err.message}`, err.message "signal lost"
MsgUnknown == "An unknown location error occurred: signal lost"
MsgNotEnough ==
  "Not enough points to form a shape. Please record at least 3 points by walking the perimeter."

\* the switch on err.code in handleError
errorMessageSwapped(code) ==
  CASE code = 1 -> MsgDenied
    [] code = 2 -> MsgTimeout
    [] code = 3 -> MsgUnavailable
    [] OTHER -> MsgUnknown
errorMessage(code) ==
  CASE code = 1 -> MsgDenied
    [] code = 2 -> MsgUnavailable
    [] code = 3 -> MsgTimeout
    [] OTHER -> MsgUnknown

\* JavaScript truthiness of a string | null
Truthy(e) == e # Null /\ e[1] # ""

\* ------------------------------------------------------------------ state
VARIABLES
  isTracking, path, area, selectedUnit, error, watchId, isGeoSupported,
  currentAccuracy,
  geolocation,  \* whether navigator.geolocation exists in this browser
  mounted,      \* whether the mount effect has run
  watches,      \* the watches the browser holds, each with the closure it calls
  nextWatchId,  \* the id the next watchPosition call returns
  calcCalls,    \* arguments of the calculatePolygonArea calls of the current walk
  download,     \* the file the latest step handed to the browser, if any
  sample,       \* the point the latest step received from the provider, if any
  errorCode,    \* the err.code the latest step received from the provider, if any
  lastOp        \* the handler the latest step ran

appVars ==
  <<isTracking, path, area, selectedUnit, error, watchId, isGeoSupported,
    currentAccuracy>>
vars ==
  <<isTracking, path, area, selectedUnit, error, watchId, isGeoSupported,
    currentAccuracy, geolocation, mounted, watches, nextWatchId, calcCalls,
    download, sample, errorCode, lastOp>>

\* the useState initial values of the first render
Init ==
  /\ isTracking = FALSE
  /\ path = <<>>
  /\ area = Null
  /\ selectedUnit = AreaUnit("SQ_METERS")
  /\ error = Null
  /\ watchId = Null
  /\ isGeoSupported = TRUE
  /\ currentAccuracy = Null
  /\ geolocation \in BOOLEAN
  /\ mounted = FALSE
  /\ watches = {}
  /\ nextWatchId = 1
  /\ calcCalls = <<>>
  /\ download = Null
  /\ sample = Null
  /\ errorCode = Null
  /\ lastOp = "init"

\* ------------------------------------------------------------------ geolocation API
\* navigator.geolocation.clearWatch(id)
clearWatch(ws, id) == {w \in ws : w.id # id}

\* navigator.geolocation.watchPosition(handleSuccess, handleError, ...): the
\* callbacks are those of the render that called it, and see that render's
\* watchId and error
watchPosition(ws, id) ==
  ws \cup {[id |-> id, watchId |-> watchId, error |-> error]}

\* the cleanup of the effect on [watchId]: runs with the old value when it changes
watchIdCleanup(ws, old, new) ==
  IF old # new /\ old # Null THEN clearWatch(ws, old[1]) ELSE ws

\* ------------------------------------------------------------------ handlers
\* the mount effect
MountKeepsSupported ==
  /\ ~mounted
  /\ mounted' = TRUE
  /\ IF ~geolocation
       THEN error' = Some(MsgUnsupported) /\ UNCHANGED isGeoSupported
       ELSE UNCHANGED <<isGeoSupported, error>>
  /\ lastOp' = "mount"
  /\ download' = Null
  /\ sample' = Null
  /\ errorCode' = Null
  /\ UNCHANGED <<isTracking, path, area, selectedUnit, watchId, currentAccuracy,
                 geolocation, watches, nextWatchId, calcCalls>>
Mount ==
  /\ ~mounted
  /\ mounted' = TRUE
  /\ IF ~geolocation
       THEN isGeoSupported' = FALSE /\ error' = Some(MsgUnsupported)
       ELSE UNCHANGED <<isGeoSupported, error>>
  /\ lastOp' = "mount"
  /\ download' = Null
  /\ sample' = Null
  /\ errorCode' = Null
  /\ UNCHANGED <<isTracking, path, area, selectedUnit, watchId, currentAccuracy,
                 geolocation, watches, nextWatchId, calcCalls>>

\* setPath(prevPath => [...prevPath, { lat, lng }])
prependPoint(prevPath, p) == <<p>> \o prevPath
appendPoint(prevPath, p) == Append(prevPath, p)

handleSuccess(w, p, accuracy) ==
  /\ mounted
  /\ w \in watches
  /\ Len(path) < MaxPath
  /\ path' = appendPoint(path, p)
  /\ currentAccuracy' = Some(accuracy)
  /\ error' = IF Truthy(w.error) THEN Null ELSE error
  /\ lastOp' = "handleSuccess"
  /\ download' = Null
  /\ sample' = Some(p)
  /\ errorCode' = Null
  /\ UNCHANGED <<isTracking, area, selectedUnit, watchId, isGeoSupported,
                 geolocation, mounted, watches, nextWatchId, calcCalls>>

handleError(w, code) ==
  /\ mounted
  /\ w \in watches
  /\ isTracking' = FALSE
  /\ watchId' = IF w.watchId # Null THEN Null ELSE watchId
  /\ watches' =
       watchIdCleanup(
         IF w.watchId # Null THEN clearWatch(watches, w.watchId[1]) ELSE watches,
         watchId, watchId')
  /\ error' = Some(errorMessage(code))
  /\ lastOp' = "handleError"
  /\ download' = Null
  /\ sample' = Null
  /\ errorCode' = Some(code)
  /\ UNCHANGED <<path, area, selectedUnit, isGeoSupported, currentAccuracy,
                 geolocation, mounted, nextWatchId, calcCalls>>

\* setPath([]) in startTracking
keptPath == path
clearedPath == <<>>

startTracking ==
  /\ nextWatchId <= MaxWatches
  /\ IF ~isGeoSupported
       THEN UNCHANGED <<appVars, watches, nextWatchId, calcCalls>>
       ELSE /\ error' = Null
            /\ path' = clearedPath
            /\ area' = Null
            /\ currentAccuracy' = Null
            /\ isTracking' = TRUE
            /\ watchId' = Some(nextWatchId)
            /\ watches' =
                 watchIdCleanup(watchPosition(watches, nextWatchId), watchId, watchId')
            /\ nextWatchId' = nextWatchId + 1
            /\ calcCalls' = <<>>
            /\ UNCHANGED <<selectedUnit, isGeoSupported>>
  /\ lastOp' = "startTracking"
  /\ download' = Null
  /\ sample' = Null
  /\ errorCode' = Null
  /\ UNCHANGED <<geolocation, mounted>>

\* path.length > 2
enoughPointsOffByOne(p) == Len(p) > 3
enoughPointsFromTwo(p) == Len(p) > 1
enoughPoints(p) == Len(p) > 2

\* path.length > 0, in the else branch
reportsTooFewOffByOne(p) == Len(p) > 1
reportsTooFew(p) == Len(p) > 0

stopTracking ==
  /\ watchId' = Null
  /\ watches' =
       watchIdCleanup(
         IF watchId # Null THEN clearWatch(watches, watchId[1]) ELSE watches,
         watchId, watchId')
  /\ isTracking' = FALSE
  /\ currentAccuracy' = Null
  /\ IF enoughPoints(path)
       THEN /\ area' = Some(calculatePolygonArea(path))
            /\ calcCalls' = Append(calcCalls, path)
            /\ UNCHANGED error
       ELSE /\ area' = Null
            /\ error' = IF reportsTooFew(path) THEN Some(MsgNotEnough) ELSE error
            /\ UNCHANGED calcCalls
  /\ lastOp' = "stopTracking"
  /\ download' = Null
  /\ sample' = Null
  /\ errorCode' = Null
  /\ UNCHANGED <<path, selectedUnit, isGeoSupported, geolocation, mounted,
                 nextWatchId>>

\* the Start Walk / Stop Walk button: disabled={!isGeoSupported}
handleToggleTracking ==
  /\ mounted
  /\ isGeoSupported
  /\ \/ isTracking /\ stopTracking
     \/ ~isTracking /\ startTracking

\* the unit buttons, rendered while area !== null: onClick setSelectedUnit(AreaUnit[key])
setSelectedUnit(key) ==
  /\ mounted
  /\ area # Null
  /\ selectedUnit' = AreaUnitEnum[key]
  /\ lastOp' = "setSelectedUnit"
  /\ download' = Null
  /\ sample' = Null
  /\ errorCode' = Null
  /\ UNCHANGED <<isTracking, path, area, error, watchId, isGeoSupported,
                 currentAccuracy, geolocation, mounted, watches, nextWatchId,
                 calcCalls>>

\* area * UNIT_CONVERSIONS[selectedUnit]: the product of a whole number of
\* square metres and a decimal factor
RECURSIVE Pow10(_)
Pow10(n) == IF n = 0 THEN 1 ELSE 10 * Pow10(n - 1)
timesRounded(a, factor) ==
  LET d == Normalize(Dec(a * factor.m, factor.e))
  IN IF d.e > 4 THEN Normalize(Dec(d.m \div Pow10(d.e - 4), 4)) ELSE d
times(a, factor) == Normalize(Dec(a * factor.m, factor.e))

\* the useMemo on [area, selectedUnit]
convertedAreaIgnoresUnit ==
  IF area = Null THEN Dec(0, 0)
  ELSE times(area[1], UNIT_CONVERSIONS[AreaUnit("SQ_METERS")])
convertedArea ==
  IF area = Null THEN Dec(0, 0) ELSE times(area[1], UNIT_CONVERSIONS[selectedUnit])

\* ------------------------------------------------------------------ CSV export
\* text is a sequence of one-character strings
Digit(d) == <<"0", "1", "2", "3", "4", "5", "6", "7", "8", "9">>[d + 1]

RECURSIVE DigitsOf(_)
DigitsOf(n) ==
  IF n < 10 THEN <<Digit(n)>> ELSE Append(DigitsOf(n \div 10), Digit(n % 10))

\* the string a template literal makes of a whole number
NumberToString(n) == IF n < 0 THEN <<"-">> \o DigitsOf(-n) ELSE DigitsOf(n)

\* Array.prototype.join
RECURSIVE join(_, _)
join(rows, sep) ==
  IF rows = <<>> THEN <<>>
  ELSE IF Len(rows) = 1 THEN rows[1]
  ELSE rows[1] \o sep \o join(Tail(rows), sep)

\* "Latitude,Longitude\n"
CsvHeader ==
  <<"L", "a", "t", "i", "t", "u", "d", "e", ",",
    "L", "o", "n", "g", "i", "t", "u", "d", "e", "\n">>

\* p => `${p.lat},${p.lng}`
csvRowSwapped(p) == NumberToString(p.lng) \o <<",">> \o NumberToString(p.lat)
csvRow(p) == NumberToString(p.lat) \o <<",">> \o NumberToString(p.lng)

\* the Blob exportToCSV hands to the browser as walk_path.csv, Null when it returns early
exportToCSV(pts) ==
  IF Len(pts) = 0 THEN Null
  ELSE Some([name |-> "walk_path.csv",
             type |-> "text/csv;charset=utf-8;",
             content |-> CsvHeader \o join([i \in 1 .. Len(pts) |-> csvRow(pts[i])], <<"\n">>)])

\* the Export CSV button, rendered while path.length > 0
exportClick ==
  /\ mounted
  /\ Len(path) > 0
  /\ download' = exportToCSV(path)
  /\ lastOp' = "exportToCSV"
  /\ sample' = Null
  /\ errorCode' = Null
  /\ UNCHANGED <<appVars, geolocation, mounted, watches, nextWatchId, calcCalls>>


Next ==
  \/ Mount
  \/ handleToggleTracking
  \/ \E w \in watches, p \in GeoPoint, a \in Accuracies : handleSuccess(w, p, a)
  \/ \E w \in watches, i \in DOMAIN ErrorCodes : handleError(w, ErrorCodes[i])
  \/ \E k \in AreaUnitKeys : setSelectedUnit(k)
  \/ exportClick

Spec == Init /\ [][Next]_vars

\* ------------------------------------------------------------------ the calculator on its own
\* calculatePolygonArea applied to any path of 3 or more points, then to the
\* same path walked the other way round
CalcGeoPoint == [lat : {-1, 0, 1}, lng : 0 .. MaxCalcLng]
CalcPaths == UNION {[1 .. n -> CalcGeoPoint] : n \in 3 .. MaxCalcLen}

Reverse(pts) == [i \in 1 .. Len(pts) |-> pts[Len(pts) + 1 - i]]

AreaInit ==
  /\ path \in CalcPaths
  /\ isTracking = FALSE
  /\ area = Null
  /\ selectedUnit = AreaUnit("SQ_METERS")
  /\ error = Null
  /\ watchId = Null
  /\ isGeoSupported = TRUE
  /\ currentAccuracy = Null
  /\ geolocation = TRUE
  /\ mounted = TRUE
  /\ watches = {}
  /\ nextWatchId = 1
  /\ calcCalls = <<>>
  /\ download = Null
  /\ sample = Null
  /\ errorCode = Null
  /\ lastOp = "init"

calcPath ==
  /\ lastOp = "init"
  /\ area' = Some(calculatePolygonArea(path))
  /\ calcCalls' = <<path>>
  /\ lastOp' = "calculatePolygonArea"
  /\ UNCHANGED <<isTracking, path, selectedUnit, error, watchId, isGeoSupported,
                 currentAccuracy, geolocation, mounted, watches, nextWatchId,
                 download, sample, errorCode>>

calcReversed ==
  /\ lastOp = "calculatePolygonArea"
  /\ path' = Reverse(path)
  /\ area' = Some(calculatePolygonArea(path'))
  /\ calcCalls' = Append(calcCalls, path')
  /\ lastOp' = "calculatePolygonArea reversed"
  /\ UNCHANGED <<isTracking, selectedUnit, error, watchId, isGeoSupported,
                 currentAccuracy, geolocation, mounted, watches, nextWatchId,
                 download, sample, errorCode>>

AreaNext == calcPath \/ calcReversed

AreaSpec == AreaInit /\ [][AreaNext]_vars

\* ------------------------------------------------------------------ claims
stopped == lastOp = "stopTracking"

\* C1: after stopTracking finalizes a walk whose path has 3 or more points,
\* calculatePolygonArea has been called exactly once in that walk, with the
\* recorded path, and area holds what it returned.
C1_StopComputesAreaOnce ==
  (stopped /\ Len(path) >= 3) =>
    /\ calcCalls = <<path>>
    /\ area = Some(calculatePolygonArea(path))

C1_Witness == stopped /\ Len(path) = 3 /\ area = Some(1000)

\* C2: after stopTracking finalizes a walk whose path has fewer than 3 points,
\* calculatePolygonArea has not been called in that walk and area is null.
C2_ShortPathNoArea ==
  (stopped /\ Len(path) < 3) => (calcCalls = <<>> /\ area = Null)

C2_Witness == stopped /\ Len(path) = 2 /\ area = Null

\* C3 as stated: after stopTracking finalizes a walk with 0, 1 or 2 points the
\* error is the not-enough-points message.
C3_Original ==
  (stopped /\ Len(path) < 3) => error = Some(MsgNotEnough)

\* C3 as amended: after stopTracking finalizes a walk with 1 or 2 points the
\* error is the not-enough-points message; with 0 points no error is reported
\* (the error stays null).
C3_TooFewReported ==
  /\ (stopped /\ Len(path) \in {1, 2}) => error = Some(MsgNotEnough)
  /\ (stopped /\ Len(path) = 0) => error = Null

C3_Witness == stopped /\ Len(path) = 1 /\ error = Some(MsgNotEnough)

\* C4 as stated: from a state where isTracking is false, a step changes the
\* path only if it starts a new walk.
C4_Original ==
  [][~isTracking => (path' = path \/ lastOp' = "startTracking")]_vars

\* C5: a step that delivers a location sample leaves the path equal to the
\* path before it followed by the sample's (lat, lng) pair.
C5_SampleAppends ==
  [][lastOp' = "handleSuccess" => path' = Append(path, sample'[1])]_vars

C5_Witness ==
  lastOp = "handleSuccess" /\ Len(path) = 3 /\ path[1] # path[2] /\ path[2] # path[3]

\* C6: right after startTracking with geolocation supported, the path is
\* empty, area, error and accuracy are null and isTracking is true.
C6_StartDiscardsSession ==
  (lastOp = "startTracking" /\ isGeoSupported) =>
    /\ path = <<>>
    /\ area = Null
    /\ error = Null
    /\ currentAccuracy = Null
    /\ isTracking

\* a second walk has just started: the first one's session was discarded
C6_Witness == lastOp = "startTracking" /\ isGeoSupported /\ nextWatchId > 2

\* C7 as stated: whenever isTracking is false the browser holds no watch of
\* the app and watchId is null.
C7_Original == ~isTracking => (watches = {} /\ watchId = Null)

\* C8 as stated: the selected unit has a factor and a label, and the units
\* with a table entry are the six named ones and are exactly the AreaUnit values.
C8_Original ==
  /\ selectedUnit \in DOMAIN UNIT_CONVERSIONS
  /\ selectedUnit \in DOMAIN UNIT_LABELS
  /\ Cardinality(DOMAIN UNIT_CONVERSIONS) = 6
  /\ DOMAIN UNIT_CONVERSIONS = AreaUnitValues
  /\ DOMAIN UNIT_LABELS = AreaUnitValues

\* the factor of each selectable unit, as constants.ts writes it
C9_Factor(u) ==
  CASE u = "m2" -> Dec(1, 0)
    [] u = "ft2" -> Dec(107639, 4)
    [] u = "acres" -> Dec(247105, 9)
    [] u = "ha" -> Dec(1, 4)

C9_Value ==
  /\ area = Null => convertedArea = Dec(0, 0)
  /\ area # Null =>
       LET f == C9_Factor(selectedUnit)
       IN /\ convertedArea.m * Pow10(f.e - convertedArea.e) = area[1] * f.m
          /\ convertedArea.e <= f.e
  /\ (area = Some(1000) /\ selectedUnit = "acres") => convertedArea = Dec(247105, 6)

\* C9: in every state the converted value is the stored area times the factor
\* of the selected unit, unrounded, and 0 when there is no area; 1000 square
\* metres in acres is 0.247105; selecting a unit leaves the stored area alone.
C9_Conversion ==
  /\ []C9_Value
  /\ [][lastOp' = "setSelectedUnit" => area' = area]_vars

C9_Witness ==
  lastOp = "setSelectedUnit" /\ area = Some(1000) /\ selectedUnit = "acres"

\* reading a CSV text back
HasChar(text, c) == \E i \in 1 .. Len(text) : text[i] = c
FirstIndex(text, c) ==
  CHOOSE i \in 1 .. Len(text) : text[i] = c /\ \A j \in 1 .. (i - 1) : text[j] # c

RECURSIVE SplitOn(_, _)
SplitOn(text, c) ==
  IF ~HasChar(text, c) THEN <<text>>
  ELSE LET i == FirstIndex(text, c)
       IN <<SubSeq(text, 1, i - 1)>> \o SplitOn(SubSeq(text, i + 1, Len(text)), c)

DigitValue(c) == CHOOSE d \in 0 .. 9 : Digit(d) = c

RECURSIVE ParseDigits(_)
ParseDigits(text) ==
  IF text = <<>> THEN 0
  ELSE 10 * ParseDigits(SubSeq(text, 1, Len(text) - 1)) + DigitValue(text[Len(text)])

ParseNumber(text) ==
  IF text[1] = "-" THEN -ParseDigits(Tail(text)) ELSE ParseDigits(text)

C10_Exported ==
  /\ path = <<>> => download = Null
  /\ exportToCSV(<<>>) = Null
  /\ lastOp = "exportToCSV" =>
       /\ download # Null
       /\ LET lines == SplitOn(download[1].content, "\n")
          IN /\ Len(lines) = Len(path) + 1
             /\ lines[1] = SubSeq(CsvHeader, 1, Len(CsvHeader) - 1)
             /\ \A i \in 1 .. Len(path) :
                  LET fields == SplitOn(lines[i + 1], ",")
                  IN /\ Len(fields) = 2
                     /\ ParseNumber(fields[1]) = path[i].lat
                     /\ ParseNumber(fields[2]) = path[i].lng

\* C10: an export yields the header row Latitude,Longitude and then one row
\* per recorded point, in path order, holding that point's latitude then its
\* longitude; it changes no application state; an empty path yields no file.
C10_Export ==
  /\ []C10_Exported
  /\ [][lastOp' = "exportToCSV" => UNCHANGED appVars]_vars

C10_Witness ==
  /\ lastOp = "exportToCSV"
  /\ Len(path) = 3
  /\ path[1] = [lat |-> -1, lng |-> 1]
  /\ path[2] = [lat |-> 0, lng |-> 1]

\* C11: for a path of 3 or more points, the area returned for the path walked
\* the other way round has the same absolute value as the area returned for
\* the path.
C11_ReversalKeepsMagnitude ==
  [][lastOp' = "calculatePolygonArea reversed" => Abs(area'[1]) = Abs(area[1])]_vars

C11_Witness ==
  /\ lastOp = "calculatePolygonArea reversed"
  /\ Len(path) = 4
  /\ area[1] > 0
  /\ path # Reverse(path)

\* every triple of points of the path lies on one line (or coincides)
Degenerate(pts) ==
  \A i, j, k \in 1 .. Len(pts) :
    (pts[j].lng - pts[i].lng) * (pts[k].lat - pts[i].lat)
      = (pts[k].lng - pts[i].lng) * (pts[j].lat - pts[i].lat)

\* C12: for a path of 3 or more points that are all identical or all on one
\* line, the area returned is 0.
C12_DegenerateIsZero ==
  (area # Null /\ Degenerate(path)) => area = Some(0)

\* three distinct points on a line that does not pass through the origin
C12_Witness ==
  /\ area # Null
  /\ path = <<[lat |-> -1, lng |-> 0], [lat |-> -1, lng |-> 2], [lat |-> -1, lng |-> 1]>>

\* C13: for every path of 3 or more points, in either orientation and also
\* when it crosses itself, the area returned (and stored) is not negative.
C13_AreaNonNegative == area # Null => area[1] >= 0

\* a path whose signed shoelace sum is negative, walked both ways
C13_Witness ==
  /\ lastOp = "calculatePolygonArea reversed"
  /\ Len(path) = 4
  /\ ShoelaceSum(path, 1) > 0
  /\ area[1] > 0

\* C14: in every state where area is not null, tracking is inactive, the path
\* has at least 3 points and area is the calculator's result for the path as
\* it is in that state; so area is null while isTracking is true.
C14_AreaMatchesPath ==
  area # Null =>
    /\ ~isTracking
    /\ Len(path) >= 3
    /\ area = Some(calculatePolygonArea(path))

\* the result of a second walk: the first walk's result was dropped in between
C14_Witness == area # Null /\ area[1] > 0 /\ nextWatchId > 2

\* the message of each error code, as handleError writes it
C15_Message(code) ==
  IF code = 1
    THEN "Location permission denied. Please enable it in your browser/system settings."
  ELSE IF code = 2
    THEN "Location data is unavailable. Please move to an open area with a clear view of the sky."
  ELSE IF code = 3
    THEN "Could not get location in time. Please check your network or GPS signal."
  ELSE "An unknown location error occurred: signal lost"

\* C15: a step that delivers a location error leaves isTracking false and the
\* error set to the message of the error's code, leaves path, area and the
\* selected unit as they were and makes no call of the calculator.
C15_ErrorEndsTracking ==
  [][lastOp' = "handleError" =>
       /\ ~isTracking'
       /\ error' = Some(C15_Message(errorCode'[1]))
       /\ path' = path
       /\ area' = area
       /\ selectedUnit' = selectedUnit
       /\ calcCalls' = calcCalls]_vars

\* an error after 3 points were recorded: no area is computed
C15_Witness ==
  /\ lastOp = "handleError"
  /\ errorCode = Some(2)
  /\ Len(path) = 3
  /\ area = Null
  /\ calcCalls = <<>>

\* C16 as stated: right after a step that records a location sample the error
\* is null.
C16_Original == lastOp = "handleSuccess" => error = Null

C17_Unsupported ==
  (mounted /\ ~geolocation) =>
    /\ ~isGeoSupported
    /\ ~isTracking
    /\ path = <<>>
    /\ area = Null
    /\ watchId = Null
    /\ watches = {}
    /\ error = Some(MsgUnsupported)

\* C17: without geolocation support startTracking changes neither isTracking,
\* path, area, error nor watchId and registers no watch; once the mount effect
\* has run, tracking is never active, no watch exists and the path is empty.
C17_NoTrackingWhenUnsupported ==
  /\ []C17_Unsupported
  /\ [][(~isGeoSupported /\ lastOp' = "startTracking") =>
          UNCHANGED <<isTracking, path, area, error, watchId, watches>>]_vars

C17_Witness == mounted /\ ~geolocation /\ ~isGeoSupported /\ lastOp = "mount"

====
